---- MODULE Spec2Model ----
(***************************************************************************)
(* The movie-engine front end: the Home page's listing/search state        *)
(* machine (debounced query -> fetch -> merge -> load more -> optimistic   *)
(* rating) together with the API client it calls.                          *)
(*                                                                         *)
(* Home is the variant of src/unnamed/part_001; the API client is the      *)
(* first definition of src/unnamed/part_006.  Network calls are in flight  *)
(* between the step that issues them and the step that delivers the        *)
(* server's answer; answers arrive in any order.                           *)
(*                                                                         *)
(* avgRating is a JavaScript number; the model keeps it as an exact        *)
(* fraction [num, den] in lowest terms, so the arithmetic of handleRate is *)
(* that of the reals (floating-point rounding is not modelled).            *)
(***************************************************************************)
EXTENDS Integers, Sequences, FiniteSets, TLC

\* ------------------------------------------------------------ bounds
MaxLoads == 3       \* calls of load() in one run without ratings
MaxRateLoads == 2   \* calls of load() in one run with ratings
MaxRates == 1       \* star clicks in one run with ratings
ShortPage == 1      \* length of a page shorter than LIMIT
MaxCard == 2        \* cards (list positions) the user rates
MaxMounts == 3      \* times a cover image is mounted in one run
MaxLiveLoads == 2   \* calls of load() in one run whose requests are answered
MaxCardRates == 2   \* star clicks in one run of the cards alone
MaxRatings == 3     \* ratings given to one item in a row
MaxCastLen == 4     \* length of a cast string

\* --------------------------------------------------------- constants
LIMIT == 10
MediaTypes == {"MOVIE", "TV_SHOW"}
StarButtons == 1..5
Queries == {"", "a", "ab"}
NULL == "<null>"
PageLens == {0, ShortPage, LIMIT}

\* ------------------------------------------------- JavaScript helpers
\* a || b on strings: the empty string is falsy
OrStr(a, b) == IF a = "" THEN b ELSE a

RECURSIVE GCD(_, _)
GCD(a, b) == IF b = 0 THEN a ELSE GCD(b, a % b)

\* the fraction n/d (d > 0) in lowest terms
Frac(n, d) == LET g == GCD(n, d) IN [num |-> n \div g, den |-> d \div g]
FracOfInt(n) == [num |-> n, den |-> 1]
FracTimesInt(f, k) == Frac(f.num * k, f.den)
FracPlusInt(f, k) == Frac(f.num + k * f.den, f.den)
FracDivInt(f, k) == Frac(f.num, f.den * k)

\* ------------------------------------------------------------ server
\* The remote media service.  What it answers to one request is free:
\* the status, the shape of the body, the number of movies, whether it
\* reports more pages.
ServerMessage == "Server says no"
StatusTexts == {"", "Service Unavailable"}
\* 2xx answers: the envelope, a bare list of movies, some other JSON
\* value, or a body that is not JSON
OkResponses ==
  [status : {"ok"}, code : {"200"}, statusText : {"OK"},
   shape : {"envelope"}, n : PageLens, more : BOOLEAN]
    \cup
  [status : {"ok"}, code : {"200"}, statusText : {"OK"},
   shape : {"list"}, n : PageLens, more : {FALSE}]
    \cup
  [status : {"ok"}, code : {"200"}, statusText : {"OK"},
   shape : {"other", "invalid"}, n : {0}, more : {FALSE}]

\* non-2xx answers: a JSON body with a message, one without, or no JSON
HttpErrorResponses ==
  [status : {"http_error"}, code : {"503"}, statusText : {""},
   shape : {"message", "no_message"}, n : {0}, more : {FALSE}]
    \cup
  [status : {"http_error"}, code : {"503"}, statusText : StatusTexts,
   shape : {"invalid"}, n : {0}, more : {FALSE}]

\* fetch itself rejects
NetworkErrors ==
  [status : {"network_error"}, code : {"-"}, statusText : {"-"},
   shape : {"-"}, n : {0}, more : {FALSE}]

\* answers to a listing or search request
Responses == OkResponses \cup HttpErrorResponses \cup NetworkErrors

\* answers to a listing request that carry a full page, or none at all
FullPageResponses ==
  {r \in OkResponses : r.shape = "envelope" /\ r.n = LIMIT} \cup NetworkErrors

\* answers to a rate request (the body of a 2xx answer is not read)
RateResponses ==
  {r \in OkResponses : r.shape \in {"other", "invalid"}}
    \cup HttpErrorResponses \cup NetworkErrors

\* index in the server's result list of the first movie of the page
FirstIndex(url) ==
  IF url.endpoint = "/movies/top" THEN url.page * url.limit
  ELSE (url.page - 1) * url.limit

\* the i-th movie of the page the server sends for url
Movie(url, i) ==
  LET k == FirstIndex(url) + i
      c == k % 3
  IN [id |-> k,
      type |-> url.type,
      highlights |-> url.query,
      ratingsCount |-> c,
      avgRating |-> IF c = 0 THEN FracOfInt(0)
                    ELSE IF c = 1 THEN FracOfInt(4) ELSE Frac(7, 2)]

ServerMovies(url, n) == [i \in 1..n |-> Movie(url, i)]

\* res.json() of a 2xx answer to url
ServerData(url, res) ==
  [movies |-> ServerMovies(url, res.n),
   total |-> FirstIndex(url) + res.n + (IF res.more THEN url.limit ELSE 0),
   page |-> url.page,
   totalPages |-> IF res.more THEN url.page + 1 ELSE url.page,
   hasMore |-> res.more,
   filters |-> {url.type},
   suggestions |-> IF res.n = 0 THEN <<"a">> ELSE << >>]

\* -------------------------------------------------------- API client
Throw(m) == [threw |-> TRUE, message |-> m]
Return(v) == [threw |-> FALSE, value |-> v]

\* a variant of handleResponse that does not read the body of a non-2xx
\* answer
handleResponseIgnoresBody(res) ==
  IF res.status # "ok"
  THEN Throw(OrStr(res.statusText, "Request failed: " \o res.code))
  ELSE IF res.shape = "invalid" THEN Throw("Unexpected token")
  ELSE Return(res)

\* const handleResponse = async (res) => ...
handleResponse(res) ==
  IF res.status # "ok"
  THEN LET errorData ==
             IF res.shape = "invalid" THEN [message |-> res.statusText]
             ELSE IF res.shape = "message" THEN [message |-> ServerMessage]
             ELSE [message |-> ""]
       IN Throw(OrStr(errorData.message, "Request failed: " \o res.code))
  ELSE IF res.shape = "invalid" THEN Throw("Unexpected token")
  ELSE Return(res)

\* await fetch(url, ...) followed by await handleResponse(res)
fetchJson(res) ==
  IF res.status = "network_error" THEN Throw("Failed to fetch")
  ELSE handleResponse(res)

\* String.prototype.split with a non-empty separator
RECURSIVE split(_, _)
split(s, sep) ==
  LET at == {i \in 1..(Len(s) - Len(sep) + 1) :
               SubSeq(s, i, i + Len(sep) - 1) = sep}
  IN IF at = {} THEN <<s>>
     ELSE LET i == CHOOSE j \in at : \A k \in at : j <= k
          IN <<SubSeq(s, 1, i - 1)>>
               \o split(SubSeq(s, i + Len(sep), Len(s)), sep)

\* String.prototype.trim (of spaces)
RECURSIVE trim(_)
trim(s) ==
  IF s = "" THEN s
  ELSE IF SubSeq(s, 1, 1) = " " THEN trim(SubSeq(s, 2, Len(s)))
  ELSE IF SubSeq(s, Len(s), Len(s)) = " " THEN trim(SubSeq(s, 1, Len(s) - 1))
  ELSE s

\* a field of a JavaScript object that may be missing
Field(o, f, default) == IF f \in DOMAIN o THEN o[f] ELSE default

\* a || b on numbers: 0 is falsy
OrNum(a, b) == IF a = 0 THEN b ELSE a

\* a variant of castsOfString that numbers the names before it drops the
\* blank ones
castsOfStringNumbersBlanks(str) ==
  LET names == split(str, ", ")
      keep == {i \in 1..Len(names) : trim(names[i]) # ""}
      at(j) == CHOOSE i \in keep : Cardinality({k \in keep : k < i}) = j - 1
  IN [j \in 1..Cardinality(keep) |->
        [id |-> at(j), role |-> "Actor",
         actor |-> [id |-> at(j), name |-> trim(names[at(j)])]]]

\* formatMovieToMediaItem: movie.cast is a non-empty string
castsOfString(str) ==
  LET names == SelectSeq(split(str, ", "), LAMBDA name : trim(name) # "")
  IN [index \in 1..Len(names) |->
        [id |-> index, role |-> "Actor",
         actor |-> [id |-> index, name |-> trim(names[index])]]]

\* formatMovieToMediaItem: movie.casts is an array
castsOfCasts(arr) ==
  [index \in 1..Len(arr) |->
     LET castMember == arr[index]
         actor == Field(castMember, "actor", [none |-> TRUE])
     IN [id |-> OrNum(Field(castMember, "id", 0), index),
         role |-> OrStr(Field(castMember, "role", ""), "Actor"),
         actor |-> [id |-> OrNum(Field(actor, "id", 0), index),
                    name |-> OrStr(Field(actor, "name", ""),
                                   "Unknown Actor")]]]

\* formatMovieToMediaItem: movie.cast is an array
castsOfCast(arr) ==
  [index \in 1..Len(arr) |->
     LET castMember == arr[index]
     IN [id |-> index,
         role |-> OrStr(Field(castMember, "role", ""), "Actor"),
         actor |-> [id |-> index,
                    name |-> OrStr(Field(castMember, "actorName", ""),
                                   OrStr(Field(castMember, "name", ""),
                                         "Unknown Actor"))]]]

\* formatMovieToMediaItem: castsArray.  A string cast is [str |-> s], an
\* array is [arr |-> <<...>>]; a missing field is missing from the record.
castsArray(movie) ==
  LET cast == Field(movie, "cast", [none |-> TRUE])
      casts == Field(movie, "casts", [none |-> TRUE])
  IN IF "str" \in DOMAIN cast /\ cast.str # "" THEN castsOfString(cast.str)
     ELSE IF "arr" \in DOMAIN casts THEN castsOfCasts(casts.arr)
     ELSE IF "arr" \in DOMAIN cast THEN castsOfCast(cast.arr)
     ELSE << >>

formatMovieToMediaItem(movie) ==
  [id |-> movie.id,
   type |-> OrStr(movie.type, "MOVIE"),
   highlights |-> movie.highlights,
   avgRating |-> IF "avgRating" \in DOMAIN movie THEN movie.avgRating
                 ELSE FracOfInt(0),
   ratingsCount |-> IF "ratingsCount" \in DOMAIN movie THEN movie.ratingsCount
                    ELSE 0,
   casts |-> castsArray(movie)]

\* movies.map(formatMovieToMediaItem)
formatMovies(movies) ==
  [i \in 1..Len(movies) |-> formatMovieToMediaItem(movies[i])]

EmptyTopResult == [items |-> << >>, total |-> 0, hasMore |-> FALSE]
EmptySearchResult ==
  [items |-> << >>, total |-> 0, hasMore |-> FALSE, filters |-> {},
   suggestions |-> << >>]

\* the request fetchTop(type, limit, offset) sends
fetchTopUrl(type, limit, offset) ==
  [endpoint |-> "/movies/top", query |-> "", type |-> type, limit |-> limit,
   page |-> offset \div limit]

\* what fetchTop resolves to once the server has answered res
fetchTop(url, res) ==
  LET data == fetchJson(res) IN
  IF data.threw THEN Return(EmptyTopResult)
  ELSE IF res.shape = "envelope"
  THEN LET d == ServerData(url, res) IN
       Return([items |-> formatMovies(d.movies),
               total |-> d.total,
               hasMore |-> d.hasMore])
  ELSE IF res.shape = "list"
  THEN LET items == formatMovies(ServerMovies(url, res.n)) IN
       Return([items |-> items,
               total |-> Len(items),
               hasMore |-> Len(items) = url.limit])
  ELSE Return(EmptyTopResult)

\* the request searchMovies(query, type, limit, offset) sends
searchMoviesUrl(query, type, limit, offset) ==
  [endpoint |-> "/movies/search", query |-> query, type |-> type,
   limit |-> limit, page |-> (offset \div limit) + 1]

\* what searchMovies resolves or rejects to once the server has answered res
searchMovies(url, res) ==
  LET data == fetchJson(res) IN
  IF data.threw THEN data
  ELSE IF res.shape = "envelope"
  THEN LET d == ServerData(url, res) IN
       Return([items |-> formatMovies(d.movies),
               total |-> d.total,
               hasMore |-> d.page < d.totalPages,
               filters |-> d.filters,
               suggestions |-> d.suggestions])
  ELSE Return(EmptySearchResult)

\* a variant of searchMoviesWithMinLengthUrl without the length test
searchMoviesWithMinLengthUrlAnyLength(query, type, limit, offset) ==
  searchMoviesUrl(query, type, limit, offset)

\* the request searchMoviesWithMinLength(query, type, limit, offset) sends
searchMoviesWithMinLengthUrl(query, type, limit, offset) ==
  IF Len(query) < 2 THEN fetchTopUrl(type, limit, offset)
  ELSE searchMoviesUrl(query, type, limit, offset)

\* what searchMoviesWithMinLength resolves or rejects to
searchMoviesWithMinLength(url, res) ==
  IF url.endpoint = "/movies/top"
  THEN LET topResult == fetchTop(url, res).value IN
       Return([items |-> topResult.items,
               total |-> topResult.total,
               hasMore |-> topResult.hasMore,
               filters |-> {},
               suggestions |-> << >>])
  ELSE searchMovies(url, res)

\* the request rateMovie(id, rating) sends
rateMovieUrl(id, rating) ==
  [endpoint |-> "/movies/rate", id |-> id, stars |-> rating]

\* what rateMovie resolves or rejects to
rateMovie(res) == fetchJson(res)

\* ---- calls of the API client's functions on their own
VARIABLES
  apiCall,          \* the call made: the function and its arguments
  apiRet,           \* what the call returned or threw, once it has
  apiSent           \* the requests the call sent

apiVars == <<apiCall, apiRet, apiSent>>

NoCall == [fn |-> "none"]
NoReturn == [pending |-> TRUE]
NoApiCall == apiCall = NoCall /\ apiRet = NoReturn /\ apiSent = {}

\* the responses handleResponse is called with: every 2xx answer, and
\* non-2xx answers of two statuses, with or without a status text, whose
\* body is JSON with a message, JSON without one, or not JSON
StatusCodes == {"404", "503"}
HandledResponses ==
  OkResponses
    \cup
  [status : {"http_error"}, code : StatusCodes, statusText : StatusTexts,
   shape : {"message", "no_message", "invalid"}, n : {0}, more : {FALSE}]

\* the movies formatMovieToMediaItem is called with: the cast as a string
\* over names, commas and spaces, as an array, or missing; casts as an
\* array or missing
CastAlphabet == {"a", "b", ",", " "}
RECURSIVE StringsUpTo(_)
StringsUpTo(n) ==
  IF n = 0 THEN {""}
  ELSE LET shorter == StringsUpTo(n - 1)
       IN shorter \cup {s \o c : s \in shorter, c \in CastAlphabet}
CastStrings == StringsUpTo(MaxCastLen)

CastsElements ==
  {[id |-> 7, role |-> "Director", actor |-> [id |-> 9, name |-> "Ann"]],
   [actor |-> [name |-> "Bob"]],
   [role |-> "Extra"]}
CastElements ==
  {[role |-> "Director", actorName |-> "Ann"],
   [name |-> "Bob"],
   [role |-> ""]}
ListsUpTo2(S) == {<< >>} \cup {<<x>> : x \in S} \cup {<<x, y>> : x, y \in S}

BareMovie == [id |-> 1, type |-> "MOVIE", highlights |-> ""]
CastMovies ==
  {BareMovie}
    \cup {BareMovie @@ ("cast" :> [str |-> s]) : s \in CastStrings}
    \cup {BareMovie @@ ("cast" :> [str |-> s])
                    @@ ("casts" :> [arr |-> <<[actor |-> [name |-> "Bob"]]>>]) :
            s \in CastStrings}
    \cup {BareMovie @@ ("casts" :> [arr |-> l]) : l \in ListsUpTo2(CastsElements)}
    \cup {BareMovie @@ ("cast" :> [arr |-> l]) : l \in ListsUpTo2(CastElements)}
    \cup {BareMovie @@ ("cast" :> [arr |-> l])
                    @@ ("casts" :> [arr |-> <<[role |-> "Extra"]>>]) :
            l \in ListsUpTo2(CastElements)}

\* ------------------------------------------------------- CoverImage
VARIABLES
  movieId,          \* the movieId prop of the mounted cover
  imgSrc,           \* useState(`/movie_covers/${movieId}.jpg`)
  hasError,         \* useState(false)
  img,              \* the <img> element: "none", "loading" or "complete"
  tried,            \* history: the sources the <img> was given since the mount
  coverMounts       \* mounts of the cover so far

coverVars == <<movieId, imgSrc, hasError, img, tried, coverMounts>>

\* the ids of the covers a page shows
CoverIds == 1..LIMIT

\* String.prototype.endsWith
endsWith(s, suffix) ==
  /\ Len(s) >= Len(suffix)
  /\ SubSeq(s, Len(s) - Len(suffix) + 1, Len(s)) = suffix

\* `/movie_covers/${movieId}.jpg` and `/movie_covers/${movieId}.jpeg`
jpgSrc(id) == "/movie_covers/" \o ToString(id) \o ".jpg"
jpegSrc(id) == "/movie_covers/" \o ToString(id) \o ".jpeg"

\* no cover is mounted
NoCover ==
  /\ movieId = 0
  /\ imgSrc = ""
  /\ hasError = FALSE
  /\ img = "none"
  /\ tried = << >>
  /\ coverMounts = 0

\* a variant of handleImageError that gives up at the first error
handleImageErrorGivesUp(c) == [c EXCEPT !.hasError = TRUE]

\* handleImageError, on the cover's state c
handleImageError(c) ==
  IF endsWith(c.imgSrc, ".jpg")
  THEN [c EXCEPT !.imgSrc = jpegSrc(c.movieId)]
  ELSE [c EXCEPT !.hasError = TRUE]

\* --------------------------------------------------------- Home page
VARIABLES
  mounted,          \* the component has mounted and run its first effect
  type,             \* useState<MediaType>("MOVIE")
  query,            \* useState("")
  debouncedQuery,   \* useDebounce(query, 300)
  items,            \* useState<MediaItem[]>([])
  loading,          \* useState(false)
  hasMore,          \* useState(true)
  error,            \* useState<string | null>(null)
  totalResults,     \* useState(0)
  suggestions,      \* useState<string[]>([])
  appliedFilters,   \* useState<any>({})
  ratingSubmitting, \* useState(false)
  offsetRef,        \* useRef(0)
  pending,          \* calls of load() awaiting the server's answer
  ratePending,      \* calls of handleRate() awaiting the server's answer
  cards,            \* the state of the mounted MediaCards, by key
  nLoads,           \* calls of load() so far
  nRates,           \* star clicks so far
  budget,           \* the run's bounds on nLoads and nRates
  sessionPages,     \* history: pages requested since the last reset effect
  last              \* history: the handler that ran last

homeVars ==
  <<mounted, type, query, debouncedQuery, items, loading, hasMore, error,
    totalResults, suggestions, appliedFilters, ratingSubmitting, offsetRef,
    pending, ratePending, cards, nLoads, nRates, budget, sessionPages, last>>

\* the Home component that guards its reset effect with a ref keeps, besides
\* the state above, that ref
VARIABLES
  didMountRef       \* useRef(false)

guardVars == <<didMountRef>>

\* the state of the components that are checked apart from Home
otherVars == <<coverVars, apiVars, guardVars>>

vars == <<homeVars, otherVars>>

\* what the history keeps of a handler: its name, the number of the call
\* it started or settled, the call's reset flag, the server's answer
NoResponse == [status |-> "-"]
Event(op, n, reset, res) ==
  [op |-> op, n |-> n, reset |-> reset, status |-> res.status, res |-> res]

\* the state a handler reads and writes, as one value
Home ==
  [items |-> items, loading |-> loading, hasMore |-> hasMore,
   error |-> error, totalResults |-> totalResults,
   suggestions |-> suggestions, appliedFilters |-> appliedFilters,
   offsetRef |-> offsetRef]

\* the state after the handler's batched updates
Commit(h) ==
  /\ items' = h.items
  /\ loading' = h.loading
  /\ hasMore' = h.hasMore
  /\ error' = h.error
  /\ totalResults' = h.totalResults
  /\ suggestions' = h.suggestions
  /\ appliedFilters' = h.appliedFilters
  /\ offsetRef' = h.offsetRef

\* the key of the card rendered at position i: `${item.id}-${i}`
CardKey(its, i) == <<its[i].id, i - 1>>
CardKeys(its) == {CardKey(its, i) : i \in 1..Len(its)}

\* a card whose key left the list is unmounted; its state is gone
Unmount(rp, its) ==
  {[p EXCEPT !.alive = @ /\ p.card \in CardKeys(its)] : p \in rp}

\* MediaCard: useState(false), useState<string | null>(null),
\* useState<number | null>(null) (0 stands for null), and the number of
\* its 2-second timers that have not fired yet
NewCard == [isRating |-> FALSE, error |-> NULL, submittedRating |-> 0,
            timers |-> 0]

\* the state of the mounted card of key k; cards holds the cards whose
\* state is not the initial one
CardOf(cs, k) == IF k \in DOMAIN cs THEN cs[k] ELSE NewCard

\* the cards left mounted by a list its
UnmountCards(cs, its) ==
  [k \in DOMAIN cs \cap CardKeys(its) |-> cs[k]]

\* MediaCard.handleRate up to its await
cardRateBegin(c, rating) ==
  [c EXCEPT !.isRating = TRUE, !.error = NULL, !.submittedRating = rating]

\* a variant of cardRateSettle whose finally is missing
cardRateSettleStaysRating(c, rejected) ==
  IF rejected
  THEN [c EXCEPT !.error = "Failed to submit rating. Please try again.",
                 !.submittedRating = 0]
  ELSE [c EXCEPT !.timers = @ + 1]

\* MediaCard.handleRate after its await: onRate resolved (the 2-second
\* timer is set) or rejected, then finally
cardRateSettle(c, rejected) ==
  IF rejected
  THEN [c EXCEPT !.error = "Failed to submit rating. Please try again.",
                 !.submittedRating = 0,
                 !.isRating = FALSE]
  ELSE [c EXCEPT !.timers = @ + 1, !.isRating = FALSE]

\* MediaCard: disabled={isRating} on each of the five star buttons
starDisabled(c) == c.isRating

\* MediaCard: the line "Rating submitted successfully!" is rendered
showsSuccess(c) == c.submittedRating # 0 /\ ~c.isRating /\ c.error = NULL

InitHome ==
  /\ mounted = FALSE
  /\ type = "MOVIE"
  /\ query = ""
  /\ debouncedQuery = ""
  /\ items = << >>
  /\ loading = FALSE
  /\ hasMore = TRUE
  /\ error = NULL
  /\ totalResults = 0
  /\ suggestions = << >>
  /\ appliedFilters = {}
  /\ ratingSubmitting = FALSE
  /\ offsetRef = 0
  /\ pending = {}
  /\ ratePending = {}
  /\ cards = << >>
  /\ nLoads = 0
  /\ nRates = 0
  /\ sessionPages = << >>
  /\ last = Event("init", 0, FALSE, NoResponse)

\* a run of the listing and search alone
NoGuard == didMountRef = FALSE

Init ==
  /\ InitHome /\ budget = [loads |-> MaxLoads, rates |-> 0]
  /\ NoCover /\ NoApiCall /\ NoGuard

\* a run in which the user also rates
InitRate ==
  /\ InitHome /\ budget = [loads |-> MaxRateLoads, rates |-> MaxRates]
  /\ NoCover /\ NoApiCall /\ NoGuard

\* load(): setLoading(...true), setError(null)
loadBegin(h) == [h EXCEPT !.loading = TRUE, !.error = NULL]

\* load(): const currentOffset = reset ? 0 : offsetRef.current
currentOffsetOf(h, reset) == IF reset THEN 0 ELSE h.offsetRef

\* load(): which API call the debounced query selects
loadCall(q) ==
  IF Len(q) >= 2 THEN "searchMoviesWithMinLength"
  ELSE IF Len(q) = 0 THEN "fetchTop"
  ELSE "none"

\* load(): the request sent, for a call that sends one
loadUrl(fn, q, t, currentOffset) ==
  IF fn = "searchMoviesWithMinLength"
  THEN searchMoviesWithMinLengthUrl(q, t, LIMIT, currentOffset)
  ELSE fetchTopUrl(t, LIMIT, currentOffset)

\* load(): what the awaited API call resolves or rejects to
loadAwait(fn, url, res) ==
  IF fn = "searchMoviesWithMinLength" THEN searchMoviesWithMinLength(url, res)
  ELSE fetchTop(url, res)

\* a variant of loadApply whose load-more puts the new page first
loadApplyPrepend(h, reset, result) ==
  IF reset
  THEN [h EXCEPT
          !.items = result.items,
          !.totalResults = result.total,
          !.suggestions = IF "suggestions" \in DOMAIN result
                          THEN result.suggestions ELSE << >>,
          !.appliedFilters = IF "filters" \in DOMAIN result
                             THEN result.filters ELSE {},
          !.hasMore = result.hasMore /\ Len(result.items) > 0,
          !.offsetRef = Len(result.items)]
  ELSE [h EXCEPT
          !.items = result.items \o h.items,
          !.offsetRef = h.offsetRef + Len(result.items),
          !.hasMore = result.hasMore /\ Len(result.items) > 0]

\* a variant of loadApply that takes hasMore as the result reports it
loadApplyHasMoreAsReported(h, reset, result) ==
  IF reset
  THEN [h EXCEPT
          !.items = result.items,
          !.totalResults = result.total,
          !.suggestions = IF "suggestions" \in DOMAIN result
                          THEN result.suggestions ELSE << >>,
          !.appliedFilters = IF "filters" \in DOMAIN result
                             THEN result.filters ELSE {},
          !.hasMore = result.hasMore,
          !.offsetRef = Len(result.items)]
  ELSE [h EXCEPT
          !.items = h.items \o result.items,
          !.offsetRef = h.offsetRef + Len(result.items),
          !.hasMore = result.hasMore]

\* load(): the branch taken with the result
loadApply(h, reset, result) ==
  IF reset
  THEN [h EXCEPT
          !.items = result.items,
          !.totalResults = result.total,
          !.suggestions = IF "suggestions" \in DOMAIN result
                          THEN result.suggestions ELSE << >>,
          !.appliedFilters = IF "filters" \in DOMAIN result
                             THEN result.filters ELSE {},
          !.hasMore = result.hasMore /\ Len(result.items) > 0,
          !.offsetRef = Len(result.items)]
  ELSE [h EXCEPT
          !.items = h.items \o result.items,
          !.offsetRef = h.offsetRef + Len(result.items),
          !.hasMore = result.hasMore /\ Len(result.items) > 0]

\* load(): catch (e)
loadCatch(h, reset, message) ==
  [h EXCEPT !.error = OrStr(message, "Failed to load"),
            !.items = IF reset THEN << >> ELSE h.items]

\* a variant of loadFinally that leaves the loading flag as it is
loadFinallyStaysLoading(h) == h

\* load(): finally
loadFinally(h) == [h EXCEPT !.loading = FALSE]

\* a variant of loadSettle that drops the answer to a request whose type
\* or debounced query is no longer the current one
loadSettleIfCurrent(h, p, res) ==
  LET r == loadAwait(p.fn, p.url, res) IN
  IF <<p.url.type, p.url.query>> # <<type, debouncedQuery>>
  THEN loadFinally(h)
  ELSE loadFinally(IF r.threw THEN loadCatch(h, p.reset, r.message)
                   ELSE loadApply(h, p.reset, r.value))

\* load(): from the server's answer to the end of the call
loadSettle(h, p, res) ==
  LET r == loadAwait(p.fn, p.url, res) IN
  loadFinally(IF r.threw THEN loadCatch(h, p.reset, r.message)
              ELSE loadApply(h, p.reset, r.value))

\* load(reset) called with the closure's type t and debounced query q, on
\* the Home state h left by the caller's own updates
load(h, reset, t, q, op) ==
  LET h1 == loadBegin(h)
      fn == loadCall(q)
      url == loadUrl(fn, q, t, currentOffsetOf(h1, reset))
      n == nLoads + 1
  IN /\ nLoads' = n
     /\ pending' = IF fn = "none" THEN pending
                   ELSE pending \cup
                          {[n |-> n, reset |-> reset, fn |-> fn, url |-> url]}
     /\ sessionPages' = IF fn = "none"
                        THEN (IF reset THEN << >> ELSE sessionPages)
                        ELSE (IF reset THEN << >> ELSE sessionPages)
                               \o <<url.page>>
     /\ last' = Event(op, n, reset, NoResponse)
     /\ \E h2 \in {IF fn = "none"
                   THEN loadFinally(loadApply(h1, reset, EmptySearchResult))
                   ELSE h1} :
          /\ Commit(h2)
          /\ ratePending' = Unmount(ratePending, h2.items)
          /\ cards' = UnmountCards(cards, h2.items)

\* a variant of resetEffect that forgets setItems([])
resetEffectKeepsItems(h) == [h EXCEPT !.offsetRef = 0, !.hasMore = TRUE]

\* useEffect(..., [type, debouncedQuery])
resetEffect(h) == [h EXCEPT !.offsetRef = 0, !.items = << >>, !.hasMore = TRUE]

Effect(t, q, op) == load(resetEffect(Home), TRUE, t, q, op)

\* the component mounts: the effect runs for the initial type and query
Mount ==
  /\ ~mounted
  /\ mounted' = TRUE
  /\ Effect(type, debouncedQuery, "mount")
  /\ UNCHANGED <<otherVars, budget, type, query, debouncedQuery,
                 ratingSubmitting, nRates>>

\* the value useDebounce yields once the input has been quiet for the delay
useDebounce(q) == q

\* onChange of the search input: the input is set to q and stays so for the
\* delay, the debounced query follows and the effect runs.  (Between the
\* keystroke and the end of the delay the input's value is read by nothing
\* but the one-character hint, so the two are one step here.)
SetQuery(q) ==
  /\ mounted
  /\ nLoads < budget.loads
  /\ q # query
  /\ query' = q
  /\ debouncedQuery' = useDebounce(q)
  /\ Effect(type, debouncedQuery', "change")
  /\ UNCHANGED <<otherVars, budget, mounted, type, ratingSubmitting, nRates>>

\* handleSuggestionClick: the input is set to the suggestion
SuggestionClick(i) ==
  /\ mounted
  /\ nLoads < budget.loads
  /\ i \in 1..Len(suggestions)
  /\ suggestions[i] # query
  /\ query' = suggestions[i]
  /\ debouncedQuery' = useDebounce(suggestions[i])
  /\ Effect(type, debouncedQuery', "change")
  /\ UNCHANGED <<otherVars, budget, mounted, type, ratingSubmitting, nRates>>

\* onClick of the Movies / TV Shows buttons
SetType(t) ==
  /\ mounted
  /\ nLoads < budget.loads
  /\ t # type
  /\ type' = t
  /\ Effect(t, debouncedQuery, "change")
  /\ UNCHANGED <<otherVars, budget, mounted, query, debouncedQuery, ratingSubmitting, nRates>>

\* the Load More button is rendered and enabled
loadMoreEnabled(h) == ~h.loading /\ h.hasMore /\ Len(h.items) > 0

\* loadMore
LoadMore ==
  /\ mounted
  /\ nLoads < budget.loads
  /\ loadMoreEnabled(Home)
  /\ load(Home, FALSE, type, debouncedQuery, "loadMore")
  /\ UNCHANGED <<otherVars, budget, mounted, type, query, debouncedQuery, ratingSubmitting,
                 nRates>>

\* the server answers a pending load
LoadResponse(p, res) ==
  /\ p \in pending
  /\ pending' = pending \ {p}
  /\ \E h \in {loadSettle(Home, p, res)} :
       /\ Commit(h)
       /\ ratePending' = Unmount(ratePending, h.items)
       /\ cards' = UnmountCards(cards, h.items)
  /\ last' = Event(IF loadAwait(p.fn, p.url, res).threw THEN "loadFail"
                   ELSE "loadOk",
                   p.n, p.reset, res)
  /\ UNCHANGED <<otherVars, budget, mounted, type, query, debouncedQuery,
                 ratingSubmitting, nLoads, nRates, sessionPages>>

\* a variant of DismissError that also empties the list
DismissErrorAndList ==
  /\ error # NULL
  /\ error' = NULL
  /\ items' = << >>
  /\ last' = Event("dismiss", 0, FALSE, NoResponse)
  /\ UNCHANGED <<otherVars, budget, mounted, type, query, debouncedQuery,
                 loading, hasMore, totalResults, suggestions, appliedFilters,
                 ratingSubmitting, offsetRef, pending, ratePending, cards,
                 nLoads, nRates, sessionPages>>

\* the error banner's close button
DismissError ==
  /\ error # NULL
  /\ error' = NULL
  /\ last' = Event("dismiss", 0, FALSE, NoResponse)
  /\ UNCHANGED <<otherVars, budget, mounted, type, query, debouncedQuery,
                 items, loading, hasMore, totalResults, suggestions,
                 appliedFilters,
                 ratingSubmitting, offsetRef, pending, ratePending, cards,
                 nLoads, nRates, sessionPages>>

\* a variant of rateItem that averages the old mean with the new rating
rateItemMeanOfTwo(item, rating) ==
  [item EXCEPT
     !.ratingsCount = item.ratingsCount + 1,
     !.avgRating = FracDivInt(FracPlusInt(item.avgRating, rating), 2)]

\* a variant of rateItem that adds the rating's share to the old mean
rateItemAddsShare(item, rating) ==
  [item EXCEPT
     !.ratingsCount = item.ratingsCount + 1,
     !.avgRating = FracDivInt(FracPlusInt(FracTimesInt(item.avgRating,
                                                       item.ratingsCount + 1),
                                          rating),
                              item.ratingsCount + 1)]

\* handleRate: the optimistic update of one item
rateItem(item, rating) ==
  [item EXCEPT
     !.ratingsCount = item.ratingsCount + 1,
     !.avgRating = FracDivInt(FracPlusInt(FracTimesInt(item.avgRating,
                                                       item.ratingsCount),
                                          rating),
                              item.ratingsCount + 1)]

\* a variant of rateItems that rates every item of the list
rateItemsEvery(its, id, rating) ==
  [i \in 1..Len(its) |-> rateItem(its[i], rating)]

\* handleRate: setItems(prev => prev.map(...))
rateItems(its, id, rating) ==
  [i \in 1..Len(its) |-> IF its[i].id = id THEN rateItem(its[i], rating)
                         ELSE its[i]]

\* a variant of rateCatch that takes the optimistic rating back
rateCatchRollback(h, p, message) ==
  [h EXCEPT
     !.error = "Failed to rate: " \o message,
     !.items =
       [i \in 1..Len(h.items) |->
          IF h.items[i].id = p.url.id /\ h.items[i].ratingsCount > 0
          THEN LET it == h.items[i]
                   total == FracPlusInt(FracTimesInt(it.avgRating,
                                                     it.ratingsCount),
                                        0 - p.url.stars)
               IN [it EXCEPT
                     !.ratingsCount = it.ratingsCount - 1,
                     !.avgRating = IF it.ratingsCount = 1 THEN FracOfInt(0)
                                   ELSE FracDivInt(total, it.ratingsCount - 1)]
          ELSE h.items[i]]]

\* handleRate: catch (e), in the call p
rateCatch(h, p, message) ==
  [h EXCEPT !.error = "Failed to rate: " \o message]

\* a star button of the card at position i is clicked
Rate(i, rating) ==
  LET id == items[i].id
      n == nRates + 1
      url == rateMovieUrl(id, rating)
  IN /\ mounted
     /\ nRates < budget.rates
     /\ i \in 1..Len(items)
     /\ i <= MaxCard
     /\ ~starDisabled(CardOf(cards, CardKey(items, i)))
     /\ nRates' = n
     /\ ratingSubmitting' = TRUE
     /\ items' = rateItems(items, id, rating)
     /\ ratePending' = ratePending \cup
                         {[n |-> n, url |-> url, card |-> CardKey(items, i),
                           alive |-> TRUE]}
     /\ cards' = (CardKey(items, i) :>
                    cardRateBegin(CardOf(cards, CardKey(items, i)), rating))
                  @@ cards
     /\ last' = Event("rate", n, FALSE, NoResponse)
     /\ UNCHANGED <<otherVars, budget, mounted, type, query, debouncedQuery, loading, hasMore,
                    error, totalResults, suggestions, appliedFilters,
                    offsetRef, pending, nLoads, sessionPages>>

\* a variant of RateResponse that sends a failed request again
RateResponseResend(p, res) ==
  LET r == rateMovie(res)
      h == IF r.threw THEN rateCatch(Home, p, r.message) ELSE Home
  IN /\ p \in ratePending
     /\ ratePending' = IF r.threw THEN ratePending ELSE ratePending \ {p}
     /\ Commit(h)
     /\ ratingSubmitting' = FALSE
     /\ cards' = IF p.alive
                 THEN (p.card :> cardRateSettle(CardOf(cards, p.card), FALSE))
                        @@ cards
                 ELSE cards
     /\ last' = Event(IF r.threw THEN "rateFail" ELSE "rateOk",
                      p.n, FALSE, res)
     /\ UNCHANGED <<otherVars, budget, mounted, type, query, debouncedQuery, pending, nLoads,
                    nRates, sessionPages>>

\* the server answers a pending rate request
RateResponse(p, res) ==
  LET r == rateMovie(res)
      h == IF r.threw THEN rateCatch(Home, p, r.message) ELSE Home
  IN /\ p \in ratePending
     /\ ratePending' = ratePending \ {p}
     /\ Commit(h)
     /\ ratingSubmitting' = FALSE
     /\ cards' = IF p.alive
                 THEN (p.card :> cardRateSettle(CardOf(cards, p.card), FALSE))
                        @@ cards
                 ELSE cards
     /\ last' = Event(IF r.threw THEN "rateFail" ELSE "rateOk",
                      p.n, FALSE, res)
     /\ UNCHANGED <<otherVars, budget, mounted, type, query, debouncedQuery, pending, nLoads,
                    nRates, sessionPages>>

\* a 2-second timer of the card of key k fires: setSubmittedRating(null)
CardTimeout(k) ==
  /\ k \in DOMAIN cards
  /\ cards[k].timers > 0
  /\ cards' = [cards EXCEPT ![k] = [@ EXCEPT !.timers = @ - 1,
                                             !.submittedRating = 0]]
  /\ last' = Event("timeout", 0, FALSE, NoResponse)
  /\ UNCHANGED <<otherVars, budget, mounted, type, query, debouncedQuery,
                 items, loading, hasMore, error, totalResults, suggestions,
                 appliedFilters, ratingSubmitting, offsetRef, pending,
                 ratePending, nLoads, nRates, sessionPages>>

\* ---- the Home component whose reset effect is guarded by didMountRef
\* the state of the other components, which this one leaves alone
guardOtherVars == <<coverVars, apiVars>>

\* a handler that returns before it changes anything
returnEarly(op) ==
  /\ last' = Event(op, nLoads, FALSE, NoResponse)
  /\ UNCHANGED <<items, loading, hasMore, error, totalResults, suggestions,
                 appliedFilters, offsetRef, pending, ratePending, cards,
                 nLoads, sessionPages>>

\* load(reset): if (loading) return; then as load above
guardedLoad(h, reset, t, q, op) ==
  IF loading THEN returnEarly(op) ELSE load(h, reset, t, q, op)

\* useEffect(..., [type, debouncedQuery, load]):
\* if (didMountRef.current) return; didMountRef.current = true; then the
\* reset and load(true)
guardedEffect(t, q, op) ==
  IF didMountRef
  THEN returnEarly(op) /\ UNCHANGED didMountRef
  ELSE /\ didMountRef' = TRUE
       /\ guardedLoad(resetEffect(Home), TRUE, t, q, op)

\* the component mounts: the effect runs for the first time
GuardedMount ==
  /\ ~mounted
  /\ mounted' = TRUE
  /\ guardedEffect(type, debouncedQuery, "mount")
  /\ UNCHANGED <<guardOtherVars, budget, type, query, debouncedQuery,
                 ratingSubmitting, nRates>>

\* onChange of the search input and the debounce: the effect runs again
GuardedSetQuery(q) ==
  /\ mounted
  /\ q # query
  /\ query' = q
  /\ debouncedQuery' = useDebounce(q)
  /\ guardedEffect(type, debouncedQuery', "change")
  /\ UNCHANGED <<guardOtherVars, budget, mounted, type, ratingSubmitting,
                 nRates>>

\* onClick of the Movies / TV Shows buttons: the effect runs again
GuardedSetType(t) ==
  /\ mounted
  /\ t # type
  /\ type' = t
  /\ guardedEffect(t, debouncedQuery, "change")
  /\ UNCHANGED <<guardOtherVars, budget, mounted, query, debouncedQuery,
                 ratingSubmitting, nRates>>

\* the Load More button is rendered and enabled
guardedLoadMoreEnabled(h) == ~h.loading /\ h.hasMore /\ Len(h.items) > 0

\* loadMore: if (loading || !hasMore) return; load(false)
GuardedLoadMore ==
  /\ mounted
  /\ nLoads < budget.loads
  /\ guardedLoadMoreEnabled(Home)
  /\ IF loading \/ ~hasMore THEN returnEarly("loadMore")
     ELSE guardedLoad(Home, FALSE, type, debouncedQuery, "loadMore")
  /\ UNCHANGED <<guardOtherVars, didMountRef, budget, mounted, type, query,
                 debouncedQuery, ratingSubmitting, nRates>>

\* the handlers of that component; the answer to a load and the error
\* banner's close button are those of the component above
NextGuard ==
  \/ GuardedMount
  \/ \E q \in Queries : GuardedSetQuery(q)
  \/ \E t \in MediaTypes : GuardedSetType(t)
  \/ GuardedLoadMore
  \/ \E p \in pending, res \in Responses : LoadResponse(p, res)
  \/ DismissError

GuardSpec == Init /\ [][NextGuard]_vars

\* the listing and search handlers
NextList ==
  \/ Mount
  \/ \E q \in Queries : SetQuery(q)
  \/ \E i \in 1..1 : SuggestionClick(i)
  \/ \E t \in MediaTypes : SetType(t)
  \/ LoadMore
  \/ \E p \in pending, res \in Responses : LoadResponse(p, res)
  \/ DismissError

Next == NextList

\* the listing and search page: the user types, takes suggestions, switches
\* the type, loads more and dismisses errors
Spec == Init /\ [][Next]_vars

\* the listing and search page whose requests are all answered in the end:
\* fetch resolves or rejects
LoadAnswered == \E p \in pending, res \in Responses : LoadResponse(p, res)

InitLive ==
  /\ InitHome /\ budget = [loads |-> MaxLiveLoads, rates |-> 0]
  /\ NoCover /\ NoApiCall /\ NoGuard

\* the handlers that call load, and the answers
NextLive ==
  \/ Mount
  \/ \E q \in Queries : SetQuery(q)
  \/ \E t \in MediaTypes : SetType(t)
  \/ LoadMore
  \/ LoadAnswered

LiveSpec == InitLive /\ [][NextLive]_vars /\ WF_vars(LoadAnswered)

\* the page with its rating control: the user loads more, dismisses errors
\* and rates; the type and the query stay as they are, and the listing is
\* answered with full pages or not at all
NextRate ==
  \/ Mount
  \/ LoadMore
  \/ \E p \in pending, res \in FullPageResponses : LoadResponse(p, res)
  \/ DismissError
  \/ \E i \in 1..MaxCard, rating \in StarButtons : Rate(i, rating)
  \/ \E p \in ratePending, res \in RateResponses : RateResponse(p, res)
  \/ \E k \in DOMAIN cards : CardTimeout(k)

RateSpec == InitRate /\ [][NextRate]_vars

\* ---- the cards with their star buttons: the list is loaded once, the
\* user clicks the lowest or the highest star of a card, a rate request is
\* answered well or not at all, the cards' timers fire
CardStars == {1, 5}
CardRateResponses ==
  {r \in OkResponses : r.shape = "other"} \cup NetworkErrors

InitCard ==
  /\ InitHome /\ budget = [loads |-> 1, rates |-> MaxCardRates]
  /\ NoCover /\ NoApiCall /\ NoGuard

NextCard ==
  \/ Mount
  \/ \E p \in pending, res \in FullPageResponses : LoadResponse(p, res)
  \/ \E i \in 1..MaxCard, rating \in CardStars : Rate(i, rating)
  \/ \E p \in ratePending, res \in CardRateResponses : RateResponse(p, res)
  \/ \E k \in DOMAIN cards : CardTimeout(k)

CardSpec == InitCard /\ [][NextCard]_vars

\* ---- the cover image on its own
\* a cover is mounted for the movie id (a card is rendered)
CoverMount(id) ==
  /\ coverMounts < MaxMounts
  /\ coverMounts' = coverMounts + 1
  /\ movieId' = id
  /\ imgSrc' = jpgSrc(id)
  /\ hasError' = FALSE
  /\ img' = "loading"
  /\ tried' = <<jpgSrc(id)>>
  /\ UNCHANGED <<homeVars, apiVars, guardVars>>

\* the browser has loaded the <img>'s source
ImageLoaded ==
  /\ img = "loading"
  /\ img' = "complete"
  /\ UNCHANGED <<movieId, imgSrc, hasError, tried, coverMounts, homeVars,
                 apiVars, guardVars>>

\* the browser could not load the <img>'s source: onError
ImageError ==
  /\ img = "loading"
  /\ \E c \in {handleImageError([movieId |-> movieId, imgSrc |-> imgSrc,
                                 hasError |-> hasError])} :
       /\ imgSrc' = c.imgSrc
       /\ hasError' = c.hasError
       /\ img' = IF c.hasError THEN "none" ELSE "loading"
       /\ tried' = IF c.hasError \/ c.imgSrc = imgSrc THEN tried
                   ELSE Append(tried, c.imgSrc)
  /\ UNCHANGED <<movieId, coverMounts, homeVars, apiVars, guardVars>>

InitCover ==
  /\ InitHome /\ budget = [loads |-> 0, rates |-> 0]
  /\ NoCover /\ NoApiCall /\ NoGuard

NextCover ==
  \/ \E id \in CoverIds : CoverMount(id)
  \/ ImageLoaded
  \/ ImageError

CoverSpec == InitCover /\ [][NextCover]_vars

\* ---- functions on their own: those of the API client, and the update
\* handleRate makes to the list
\* handleResponse(res) runs to its end
HandleResponse ==
  /\ apiCall.fn = "handleResponse"
  /\ apiRet = NoReturn
  /\ apiRet' = handleResponse(apiCall.res)
  /\ UNCHANGED <<apiCall, apiSent, homeVars, coverVars, guardVars>>

\* formatMovieToMediaItem(movie) runs to its end
FormatMovie ==
  /\ apiCall.fn = "formatMovieToMediaItem"
  /\ apiRet = NoReturn
  /\ apiRet' = Return(formatMovieToMediaItem(apiCall.movie))
  /\ UNCHANGED <<apiCall, apiSent, homeVars, coverVars, guardVars>>

\* searchMoviesWithMinLength(query, type, LIMIT, offset) runs to its end:
\* it sends its request, the server answers, it resolves or rejects
SearchMoviesWithMinLength ==
  /\ apiCall.fn = "searchMoviesWithMinLength"
  /\ apiRet = NoReturn
  /\ \E url \in {searchMoviesWithMinLengthUrl(apiCall.query, apiCall.type,
                                                LIMIT, apiCall.offset)} :
       /\ apiSent' = {url}
       /\ apiRet' = searchMoviesWithMinLength(url, apiCall.res)
  /\ UNCHANGED <<apiCall, homeVars, coverVars, guardVars>>

\* handleRate's setItems(prev => prev.map(...)) runs on the list prev
RateItems ==
  /\ apiCall.fn = "handleRate"
  /\ apiRet = NoReturn
  /\ apiRet' = Return(rateItems(apiCall.items, apiCall.id, apiCall.rating))
  /\ UNCHANGED <<apiCall, apiSent, homeVars, coverVars, guardVars>>

\* the lists handleRate runs on: up to two of the first movies of the
\* top-rated listing in any order, one movie twice included
RatedItemsPool ==
  {formatMovieToMediaItem(Movie(fetchTopUrl("MOVIE", LIMIT, 0), i)) :
     i \in 1..MaxCard}
\* the ids handleRate is called with: those of the pool, and one more
RatedIds == 1..(MaxCard + 1)

\* handleRate runs once more on the list left by its earlier runs, for
\* the next of the stars clicked
RateInTurn ==
  /\ apiCall.fn = "handleRate in turn"
  /\ LET done == IF apiRet = NoReturn THEN 0 ELSE apiRet.value.done
         its == IF apiRet = NoReturn THEN apiCall.items
                ELSE apiRet.value.items
     IN /\ done < Len(apiCall.ratings)
        /\ apiRet' = Return([items |-> rateItems(its, apiCall.id,
                                                 apiCall.ratings[done + 1]),
                             done |-> done + 1])
  /\ UNCHANGED <<apiCall, apiSent, homeVars, coverVars, guardVars>>

\* the items rated in turn: the first three movies of the top-rated
\* listing (one, two and no ratings so far), and one whose mean is 5
TopMovie(i) == formatMovieToMediaItem(Movie(fetchTopUrl("MOVIE", LIMIT, 0), i))
RatedInTurn ==
  {TopMovie(i) : i \in 1..3}
    \cup {[TopMovie(4) EXCEPT !.avgRating = FracOfInt(5)]}

\* the stars clicked in turn: up to MaxRatings of them
RECURSIVE StarsUpTo(_)
StarsUpTo(n) ==
  IF n = 0 THEN {<< >>}
  ELSE StarsUpTo(n - 1)
         \cup {Append(t, r) : t \in {u \in StarsUpTo(n - 1) : Len(u) = n - 1},
                              r \in StarButtons}

\* the offsets load() passes: the first page and the second
ApiOffsets == {0, LIMIT}

\* the calls made
ApiCalls ==
  [fn : {"handleResponse"}, res : HandledResponses]
    \cup [fn : {"formatMovieToMediaItem"}, movie : CastMovies]
    \cup [fn : {"searchMoviesWithMinLength"}, query : Queries,
          type : MediaTypes, offset : ApiOffsets, res : Responses]
    \cup [fn : {"handleRate"}, items : ListsUpTo2(RatedItemsPool),
          id : RatedIds, rating : StarButtons]
    \cup {[fn |-> "handleRate in turn", items |-> <<it>>, id |-> it.id,
           ratings |-> t] :
            it \in RatedInTurn, t \in StarsUpTo(MaxRatings) \ {<< >>}}

InitApi ==
  /\ InitHome /\ budget = [loads |-> 0, rates |-> 0] /\ NoCover /\ NoGuard
  /\ apiCall \in ApiCalls
  /\ apiRet = NoReturn
  /\ apiSent = {}

NextApi ==
  \/ HandleResponse
  \/ FormatMovie
  \/ SearchMoviesWithMinLength
  \/ RateItems
  \/ RateInTurn

ApiSpec == InitApi /\ [][NextApi]_vars

\* ------------------------------------------------------------ claims
\* a step in which load() is called
LoadCalled == nLoads' # nLoads
\* the requests a step sends
Sent == pending' \ pending
\* the request p was sent for a type or debounced query that has changed
Superseded(p) == <<p.url.type, p.url.query>> # <<type, debouncedQuery>>
\* the first page of an endpoint (an offset of 0)
FirstPage(endpoint) == IF endpoint = "/movies/top" THEN 0 ELSE 1

\* C1: in every call of load the length of the debounced query alone
\* decides the request: >= 2 sends exactly one search request, 0 sends
\* exactly one top-rated request, 1 sends none and leaves the list empty
\* with hasMore false.
C1_QueryLengthDecidesRequest ==
  [][LoadCalled =>
       LET len == Len(debouncedQuery') IN
       /\ pending \subseteq pending'
       /\ len >= 2 => /\ Cardinality(Sent) = 1
                      /\ \A r \in Sent : r.url.endpoint = "/movies/search"
       /\ len = 0 => /\ Cardinality(Sent) = 1
                     /\ \A r \in Sent : r.url.endpoint = "/movies/top"
       /\ len = 1 => /\ Sent = {}
                     /\ items' = << >>
                     /\ hasMore' = FALSE]_vars

\* C2 as claimed: every change of the type or of the debounced query
\* resets the offset to 0, empties the list and starts a fetch of the first
\* page for the new (type, debounced query) pair.
C2_ChangeStartsFetch ==
  [][(type' # type \/ debouncedQuery' # debouncedQuery) =>
       /\ offsetRef' = 0
       /\ items' = << >>
       /\ \E r \in Sent :
            /\ r.reset
            /\ r.url.type = type'
            /\ r.url.query = debouncedQuery'
            /\ r.url.page = FirstPage(r.url.endpoint)]_vars

\* C2 amended: every change of the type or of the debounced query resets
\* the offset to 0 and empties the list; unless the new debounced query
\* has exactly one character it sends exactly one request, for the first
\* page of the new pair (search for >= 2 characters, top-rated for none);
\* with exactly one character it sends none.
C2_ChangeResetsAndFetchesUnlessOneChar ==
  [][(type' # type \/ debouncedQuery' # debouncedQuery) =>
       /\ offsetRef' = 0
       /\ items' = << >>
       /\ pending \subseteq pending'
       /\ IF Len(debouncedQuery') = 1 THEN Sent = {}
          ELSE /\ Cardinality(Sent) = 1
               /\ \A r \in Sent :
                    /\ r.reset
                    /\ r.url.type = type'
                    /\ r.url.query = debouncedQuery'
                    /\ r.url.endpoint = IF Len(debouncedQuery') >= 2
                                        THEN "/movies/search"
                                        ELSE "/movies/top"
                    /\ r.url.page = FirstPage(r.url.endpoint)]_vars

\* C2 witness: the query has changed to "ab" while an earlier request is
\* still in flight; the list is empty, the offset 0, and the search for
\* page 1 of "ab" is in flight.
C2_Witness ==
  /\ last.op = "change"
  /\ debouncedQuery = "ab"
  /\ items = << >>
  /\ offsetRef = 0
  /\ \E r \in pending :
       /\ r.n = last.n
       /\ r.url.query = "ab"
       /\ r.url.page = 1
  /\ \E r \in pending : r.n < last.n

\* C3: a load-more is started only where hasMore is true and no list
\* fetch is in flight.
C3_LoadMoreOnlyWhenIdle ==
  [][(LoadCalled /\ last'.op = "loadMore") =>
       (hasMore /\ pending = {})]_vars

\* C4: a list request is never cancelled, and the answer to a superseded
\* request is applied like any other: a successful answer to a reset
\* load replaces the list by that answer's items even though the type or
\* the debounced query has changed since.
C4_SupersededResponseApplied ==
  [][\A p \in pending :
       /\ p \in pending' \/ (last'.n = p.n /\ last'.op \in {"loadOk", "loadFail"})
       /\ (last'.op = "loadOk" /\ last'.n = p.n /\ p.reset /\ Superseded(p))
            => items' = loadAwait(p.fn, p.url, last'.res).value.items]_vars

\* C4 witness: the answer to the first request arrived after the answer
\* to the request that superseded it, and the list shows its items,
\* which are not of the current type or query.
C4_Witness ==
  /\ last.op = "loadOk"
  /\ last.reset
  /\ nLoads = last.n + 1
  /\ Len(debouncedQuery) # 1
  /\ pending = {}
  /\ items # << >>
  /\ <<items[1].type, items[1].highlights>> # <<type, debouncedQuery>>

\* C5: whenever the server answers a request with a non-2xx status, the
\* Home page ends with a non-null error message.
C5_HttpErrorShown ==
  [][last'.status = "http_error" => error' # NULL]_vars

\* C6: when a reset load's fetch fails, the list is empty afterwards and
\* the error message is set.
C6_FailedResetClearsAndReports ==
  [][(last'.op \in {"loadOk", "loadFail"} /\ last'.reset
        /\ last'.status \in {"http_error", "network_error"})
       => (items' = << >> /\ error' # NULL)]_vars

\* C7: a successful load-more keeps every loaded item in place and in
\* order and appends the items of the returned page after them, in the
\* order received.
C7_LoadMoreAppends ==
  [][\A p \in pending :
       (last'.op = "loadOk" /\ last'.n = p.n /\ ~p.reset)
         => LET page == loadAwait(p.fn, p.url, last'.res).value.items IN
            /\ Len(items') = Len(items) + Len(page)
            /\ \A i \in 1..Len(items) : items'[i] = items[i]
            /\ \A j \in 1..Len(page) : items'[Len(items) + j] = page[j]]_vars

\* C7 witness: a load-more has appended a second full page to the first.
C7_Witness ==
  /\ last.op = "loadOk"
  /\ ~last.reset
  /\ Len(items) = 2 * LIMIT
  /\ items[1].id # items[LIMIT + 1].id

\* C8: within one session each load-more requests the page after the
\* page of the previous request: none twice, none skipped.
C8_SuccessivePages ==
  \A i \in 2..Len(sessionPages) : sessionPages[i] = sessionPages[i - 1] + 1

\* C9: handleRate(id, r) changes the matching items while its request is
\* still in flight: ratingsCount becomes count + 1 and avgRating becomes
\* (avg * count + r) / (count + 1), so the total avg * count grows by r.
C9_OptimisticMean ==
  [][last'.op = "rate" =>
       \E p \in ratePending' \ ratePending :
         /\ p.n = last'.n
         /\ Len(items') = Len(items)
         /\ \A i \in 1..Len(items) :
              items[i].id = p.url.id =>
                LET avg == items[i].avgRating
                    count == items[i].ratingsCount
                IN /\ items'[i].ratingsCount = count + 1
                   /\ items'[i].avgRating =
                        Frac(avg.num * count + p.url.stars * avg.den,
                             avg.den * (count + 1))
                   /\ FracTimesInt(items'[i].avgRating, count + 1) =
                        FracPlusInt(FracTimesInt(avg, count), p.url.stars)]_vars

\* C9 witness: a star of an item that had ratings was clicked; the item
\* carries the new count and a new mean while the request is in flight.
C9_Witness ==
  /\ last.op = "rate"
  /\ \E p \in ratePending :
       /\ p.n = last.n
       /\ p.url.stars = 1
       /\ \E i \in 1..Len(items) :
            /\ items[i].id = p.url.id
            /\ items[i].ratingsCount = 3
            /\ items[i].avgRating = Frac(8, 3)

\* C10: a failed rate request rolls nothing back: the step that handles
\* the failure leaves the list (with the optimistic change) as it is,
\* sets the error message, ends the submission, and changes nothing else.
C10_NoRollbackOnRateFailure ==
  [][last'.op = "rateFail" =>
       /\ items' = items
       /\ error' # NULL
       /\ ratingSubmitting' = FALSE
       /\ UNCHANGED <<loading, hasMore, totalResults, suggestions,
                      appliedFilters, offsetRef, type, query,
                      debouncedQuery, pending>>]_vars

\* C10 witness: the rate request has failed and the rated item still
\* carries the optimistic count, one more than the server's.
C10_Witness ==
  /\ last.op = "rateFail"
  /\ ratePending = {}
  /\ nRates = 1
  /\ error # NULL
  /\ \E i \in 1..Len(items) : items[i].ratingsCount = (items[i].id % 3) + 1

\* the numbers of the rate requests in flight
RateCalls(rp) == {p.n : p \in rp}

\* C11: one click on a star makes one optimistic change (the count of the
\* rated item grows by one) and sends one rate request, for that item and
\* that star; no other step sends a rate request, and the answer to a
\* request, success or failure, ends it: it is not sent again.
C11_OneMutationOneRequest ==
  [][/\ \A p, q \in ratePending' : p.n = q.n => p = q
     /\ IF nRates' # nRates
        THEN /\ nRates' = nRates + 1
             /\ RateCalls(ratePending') \ RateCalls(ratePending) = {nRates'}
             /\ \E p \in ratePending', i \in 1..Len(items) :
                  /\ p.n = nRates'
                  /\ p.url.id = items[i].id
                  /\ p.url.stars \in StarButtons
                  /\ Len(items') = Len(items)
                  /\ items'[i].ratingsCount = items[i].ratingsCount + 1
                  /\ FracTimesInt(items'[i].avgRating, items'[i].ratingsCount) =
                       FracPlusInt(FracTimesInt(items[i].avgRating,
                                                items[i].ratingsCount),
                                   p.url.stars)
        ELSE RateCalls(ratePending') \subseteq RateCalls(ratePending)
     /\ last'.op \in {"rateOk", "rateFail"} =>
          /\ last'.n \in RateCalls(ratePending)
          /\ last'.n \notin RateCalls(ratePending')
          /\ nRates' = nRates]_vars

\* C11 witness: the one request of the one click was answered with
\* success; nothing is in flight and the item carries the one change.
C11_Witness ==
  /\ last.op = "rateOk"
  /\ nRates = 1
  /\ ratePending = {}
  /\ \E i \in 1..Len(items) : items[i].ratingsCount = (items[i].id % 3) + 1

\* C12: a successful answer that carries the movies as the envelope or as
\* a bare list yields those movies as the items of the call, for the
\* top-rated listing and for the search alike.
C12_EnvelopeOrListYieldsMovies ==
  [][\A p \in pending :
       (last'.op = "loadOk" /\ last'.n = p.n
          /\ last'.res.shape \in {"envelope", "list"})
         => loadAwait(p.fn, p.url, last'.res).value.items =
              formatMovies(ServerMovies(p.url, last'.res.n))]_vars

\* a step in which the mounted cover's <img> reports a load error
CoverErrorStep ==
  /\ coverMounts' = coverMounts
  /\ img = "loading"
  /\ img' # "complete"
  /\ coverVars' # coverVars

\* C13: the cover follows .jpg -> .jpeg -> placeholder: the first load
\* error switches the source from <id>.jpg to <id>.jpeg, the second one
\* switches to the placeholder, at most two sources are ever tried, and
\* once the placeholder is shown no further source is tried.
C13_CoverFallbackChain ==
  [][/\ CoverErrorStep =>
          IF imgSrc = jpgSrc(movieId)
          THEN /\ imgSrc' = jpegSrc(movieId)
               /\ ~hasError'
               /\ tried' = <<jpgSrc(movieId), jpegSrc(movieId)>>
          ELSE /\ imgSrc = jpegSrc(movieId)
               /\ hasError'
               /\ img' = "none"
               /\ tried' = tried
     /\ Len(tried') <= 2
     /\ (hasError /\ coverMounts' = coverMounts) => UNCHANGED coverVars]_vars

\* C13 witness: both sources of cover 3 failed and the placeholder is shown.
C13_Witness ==
  /\ hasError
  /\ img = "none"
  /\ tried = <<jpgSrc(3), jpegSrc(3)>>

\* a call of handleResponse on a non-2xx answer has thrown
HandledHttpError ==
  /\ apiCall.fn = "handleResponse"
  /\ apiCall.res.status = "http_error"
  /\ apiRet # NoReturn

\* C14 as claimed: the error thrown for a non-2xx answer carries the
\* server's message when the body has one, and otherwise the status text.
C14_MessageOrStatusText ==
  HandledHttpError =>
    /\ apiRet.threw
    /\ apiRet.message = IF apiCall.res.shape = "message" THEN ServerMessage
                        ELSE apiCall.res.statusText

\* C14 amended: the error carries the server's message when the body is
\* JSON with a message; the status text when the body is not JSON and the
\* status text is not empty; and "Request failed: <status>" otherwise.
C14_MessageStatusTextOrStatus ==
  HandledHttpError =>
    /\ apiRet.threw
    /\ apiRet.message =
         IF apiCall.res.shape = "message" THEN ServerMessage
         ELSE IF apiCall.res.shape = "invalid" /\ apiCall.res.statusText # ""
         THEN apiCall.res.statusText
         ELSE "Request failed: " \o apiCall.res.code

\* C14 witness: a 503 with a status text and a JSON body without a
\* message was thrown as "Request failed: 503".
C14_Witness ==
  /\ HandledHttpError
  /\ apiCall.res.shape = "no_message"
  /\ apiCall.res.statusText = "Service Unavailable"
  /\ apiRet.threw
  /\ apiRet.message = "Request failed: 503"

\* a call of formatMovieToMediaItem has returned
Formatted == apiCall.fn = "formatMovieToMediaItem" /\ apiRet # NoReturn

\* the names of a delimited cast string, said without the code's steps:
\* the delimiter ", " cuts the string into segments; a name is what a
\* segment holds between its first and its last character that is not a
\* space; a segment of spaces only holds no name
Cuts(s) == {i \in 1..(Len(s) - 1) : SubSeq(s, i, i + 1) = ", "}
SegmentStarts(s) == {1} \cup {i + 2 : i \in Cuts(s)}
SegmentFrom(s, a) ==
  LET later == {i \in Cuts(s) : i >= a}
  IN IF later = {} THEN SubSeq(s, a, Len(s))
     ELSE SubSeq(s, a, (CHOOSE i \in later : \A k \in later : i <= k) - 1)
Letters(x) == {i \in 1..Len(x) : SubSeq(x, i, i) # " "}
NameIn(x) ==
  SubSeq(x, CHOOSE i \in Letters(x) : \A k \in Letters(x) : i <= k,
            CHOOSE i \in Letters(x) : \A k \in Letters(x) : i >= k)
NameStarts(s) == {a \in SegmentStarts(s) : Letters(SegmentFrom(s, a)) # {}}
NthNameStart(s, j) ==
  CHOOSE a \in NameStarts(s) : Cardinality({b \in NameStarts(s) : b < a}) = j - 1

\* C15: formatMovieToMediaItem gives the cast as one list: from a
\* delimited string, one member per non-blank name, in order, with ids
\* 1..n and trimmed names; from a structured list (casts, or an array
\* cast), one member per element; from a movie with no cast data, the
\* empty list.
C15_CastNormalized ==
  Formatted =>
    LET movie == apiCall.movie
        out == apiRet.value.casts
        isStr == "cast" \in DOMAIN movie /\ "str" \in DOMAIN movie.cast
        hasCasts == "casts" \in DOMAIN movie
        isArr == "cast" \in DOMAIN movie /\ "arr" \in DOMAIN movie.cast
    IN /\ (isStr /\ (movie.cast.str # "" \/ ~hasCasts)) =>
            LET s == movie.cast.str IN
            /\ Len(out) = Cardinality(NameStarts(s))
            /\ \A j \in 1..Len(out) :
                 /\ out[j].id = j
                 /\ out[j].actor.id = j
                 /\ out[j].actor.name = NameIn(SegmentFrom(s, NthNameStart(s, j)))
       /\ (hasCasts /\ ~(isStr /\ movie.cast.str # "")) =>
            /\ Len(out) = Len(movie.casts.arr)
            /\ \A j \in 1..Len(out) :
                 /\ out[j].id \in {j, 7}
                 /\ out[j].actor.name \in {"Ann", "Bob", "Unknown Actor"}
       /\ (isArr /\ ~hasCasts) =>
            /\ Len(out) = Len(movie.cast.arr)
            /\ \A j \in 1..Len(out) : out[j].id = j
       /\ (~isStr /\ ~isArr /\ ~hasCasts) => out = << >>

\* C15 witness: the cast ", a " (a blank name, then a name between
\* spaces) gave the one member 1, "a".
C15_Witness ==
  /\ Formatted
  /\ "cast" \in DOMAIN apiCall.movie
  /\ "str" \in DOMAIN apiCall.movie.cast
  /\ apiCall.movie.cast.str = ", a "
  /\ "casts" \notin DOMAIN apiCall.movie
  /\ Len(apiRet.value.casts) = 1
  /\ apiRet.value.casts[1].id = 1
  /\ apiRet.value.casts[1].actor.name = "a"

\* C16: dismissing the error banner sets the error to null and changes
\* nothing else of Home's state; and an error that is shown goes away
\* only when it is dismissed or when a load starts.
C16_DismissOnlyClearsError ==
  [][/\ last'.op = "dismiss" =>
          /\ error' = NULL
          /\ UNCHANGED <<items, offsetRef, hasMore, loading, totalResults,
                         suggestions, appliedFilters, ratingSubmitting, type,
                         query, debouncedQuery, pending, ratePending>>
     /\ (error # NULL /\ error' = NULL) =>
          (last'.op = "dismiss" \/ LoadCalled)]_vars

\* C16 witness: the error of a failed load-more was dismissed while the
\* loaded items stay shown.
C16_Witness ==
  /\ last.op = "dismiss"
  /\ error = NULL
  /\ items # << >>
  /\ offsetRef = Len(items)
  /\ hasMore

\* a step of the guarded component in which the type filter or the
\* debounced query changes once the first load has been answered
GuardedChangeAfterFirstLoad ==
  /\ mounted /\ nLoads >= 1 /\ pending = {} /\ ~loading
  /\ <<type', debouncedQuery'>> # <<type, debouncedQuery>>

\* C17: in the component whose reset effect is guarded by didMountRef, a
\* change of the type filter or of the debounced query after the first
\* load resets the pagination and starts a fetch of the first page for the
\* new value (a query of one character, which is never fetched, set aside).
C17_GuardedChangeResetsAndFetches ==
  [][(GuardedChangeAfterFirstLoad /\ Len(debouncedQuery') # 1)
       => /\ LoadCalled
          /\ \E p \in Sent :
               /\ p.reset
               /\ p.url.type = type'
               /\ p.url.query = debouncedQuery'
               /\ p.url.page = FirstPage(p.url.endpoint)
          /\ items' = << >> /\ hasMore' /\ loading']_vars

\* a step in which a load-more's request is answered with a failure
LoadMoreFailed ==
  /\ last'.op \in {"loadOk", "loadFail"}
  /\ ~last'.reset
  /\ last'.status \in {"http_error", "network_error"}

\* C18: when a load-more fetch fails, the loaded items, the pagination
\* offset and hasMore are as before the load-more; only the error message
\* and the loading flag change, for a top-rated listing request as for a
\* search request.
C18_FailedLoadMoreKeepsList ==
  [][LoadMoreFailed
       => /\ items' = items
          /\ offsetRef' = offsetRef
          /\ hasMore' = hasMore
          /\ totalResults' = totalResults
          /\ suggestions' = suggestions
          /\ appliedFilters' = appliedFilters
          /\ error' # NULL
          /\ ~loading']_vars

\* searchMoviesWithMinLength has been called and has run to its end
SearchedWithMinLength ==
  apiCall.fn = "searchMoviesWithMinLength" /\ apiRet # NoReturn

\* C19: no request to the search endpoint carries a query shorter than 2
\* characters: searchMoviesWithMinLength called with such a query sends a
\* top-rated listing request instead and returns that listing's items with
\* empty filters and empty suggestions.
C19_ShortQueryListsTopRated ==
  SearchedWithMinLength
    => /\ \A u \in apiSent : u.endpoint = "/movies/search" => Len(u.query) >= 2
       /\ Len(apiCall.query) < 2
            => LET top == fetchTopUrl(apiCall.type, LIMIT, apiCall.offset) IN
               /\ apiSent = {top}
               /\ ~apiRet.threw
               /\ apiRet.value.items = fetchTop(top, apiCall.res).value.items
               /\ apiRet.value.filters = {}
               /\ apiRet.value.suggestions = << >>

\* a call with a one-character query was answered with a page of the
\* top-rated listing
C19_Witness ==
  /\ SearchedWithMinLength
  /\ Len(apiCall.query) = 1
  /\ apiSent = {fetchTopUrl(apiCall.type, LIMIT, apiCall.offset)}
  /\ Len(apiRet.value.items) = LIMIT

\* handleRate's update of the list has run
RatedItems == apiCall.fn = "handleRate" /\ apiRet # NoReturn

\* the fields of an item that handleRate may change
RatedFields == {"avgRating", "ratingsCount"}

\* C20: handleRate(id, r) changes only avgRating and ratingsCount, and only
\* of the items whose id is id: the list keeps its length and order, every
\* other item and every other field of a rated item is unchanged, and with
\* no item of that id the list is unchanged.
C20_RateChangesOnlyRatedFields ==
  RatedItems
    => LET prev == apiCall.items
           now == apiRet.value
           id == apiCall.id
       IN /\ Len(now) = Len(prev)
          /\ \A i \in 1..Len(prev) :
               IF prev[i].id = id
               THEN /\ DOMAIN now[i] = DOMAIN prev[i]
                    /\ \A f \in DOMAIN prev[i] \ RatedFields :
                         now[i][f] = prev[i][f]
               ELSE now[i] = prev[i]
          /\ (\A i \in 1..Len(prev) : prev[i].id # id) => now = prev

\* a list of two different movies of which the second was rated
C20_Witness ==
  /\ RatedItems
  /\ Len(apiCall.items) = 2
  /\ apiCall.items[1].id # apiCall.id
  /\ apiCall.items[2].id = apiCall.id
  /\ apiRet.value[2].ratingsCount = apiCall.items[2].ratingsCount + 1
  /\ apiRet.value[2].avgRating # apiCall.items[2].avgRating

\* the type and the query of the request that returned an item
ItemPair(item) == <<item.type, item.highlights>>

\* C21: in every state all items of the list were returned by requests
\* for one and the same pair of type and debounced query.
C21_ItemsOfOnePair ==
  \A i, j \in 1..Len(items) : ItemPair(items[i]) = ItemPair(items[j])

\* C22: the loading flag is true in every state in which a list fetch
\* started by load is still in flight.
C22_LoadingWhileInFlight == pending # {} => loading

\* a step in which a call of load runs to its end: its request is answered,
\* or it sends none
LoadCompleted ==
  \/ last'.op \in {"loadOk", "loadFail"}
  \/ LoadCalled /\ Sent = {}

\* C23: after every completed load, reset or load-more, successful or
\* failed, in any order of the answers, offsetRef is the number of items
\* in the list.
C23_OffsetIsItemCount ==
  [][LoadCompleted => offsetRef' = Len(items')]_vars

\* the answer res to the request p tells that more pages follow: the
\* envelope says so, or a bare list of top-rated movies is a full page
ReportedMore(p, res) ==
  IF res.shape = "envelope" THEN res.more
  ELSE /\ res.shape = "list"
       /\ p.url.endpoint = "/movies/top"
       /\ res.n = p.url.limit

\* C24 as stated: after a successful load hasMore is true only if the
\* server reported more pages and the answer held at least one item.
C24_HasMoreOnlyIfReported ==
  [][\A p \in pending :
       (last'.op = "loadOk" /\ last'.n = p.n)
         => (hasMore' => /\ last'.res.shape = "envelope"
                         /\ last'.res.more
                         /\ last'.res.n > 0)]_vars

\* C24 amended: after a successful load hasMore is true only if the answer
\* held at least one item and either its envelope reported more pages or
\* it was a bare list of top-rated movies of exactly LIMIT items; an answer
\* without items always ends the pagination.
C24_HasMoreOnlyIfReportedOrFullList ==
  [][\A p \in pending :
       (last'.op = "loadOk" /\ last'.n = p.n)
         => LET page == loadAwait(p.fn, p.url, last'.res).value.items IN
            /\ hasMore' => (ReportedMore(p, last'.res) /\ Len(page) > 0)
            /\ Len(page) = 0 => ~loadMoreEnabled(Home')]_vars

\* a bare list of LIMIT movies was taken as a page that has a successor
C24_Witness ==
  /\ last.op = "loadOk"
  /\ last.res.shape = "list"
  /\ last.res.n = LIMIT
  /\ hasMore
  /\ loadMoreEnabled(Home)

\* C25: a card shows its rating as submitted successfully only if the rate
\* request succeeded: after a failed rate request the mounted card shows
\* no success line.
C25_SuccessOnlyOnSuccess ==
  [][\A p \in ratePending :
       (last'.op = "rateFail" /\ last'.n = p.n /\ p.alive)
         => ~showsSuccess(CardOf(cards', p.card))]_vars

\* the rate requests of the mounted card of key k that are in flight
InFlight(k) == {p \in ratePending : p.alive /\ p.card = k}

\* C26: while a card's submission is in flight isRating is true and its
\* star buttons are disabled, so a card never has two rate requests in
\* flight; once the submission has settled, well or not, isRating is false.
C26_OneSubmissionPerCard ==
  \A k \in CardKeys(items) :
    /\ Cardinality(InFlight(k)) <= 1
    /\ CardOf(cards, k).isRating <=> InFlight(k) # {}
    /\ CardOf(cards, k).isRating => starDisabled(CardOf(cards, k))

\* a card's first submission failed and its second is in flight, while the
\* other card, rated before, is idle again
C26_Witness ==
  /\ nRates = 2
  /\ Len(items) >= 2
  /\ Cardinality(InFlight(CardKey(items, 1))) = 1
  /\ CardOf(cards, CardKey(items, 1)).isRating
  /\ error # NULL
  /\ ~CardOf(cards, CardKey(items, 2)).isRating

\* C27: every load that starts sets loading back to false in the end,
\* on success and on failure, its request being answered: the step that
\* ends a call of load leaves loading false, loading is false whenever no
\* list fetch is outstanding, and a page that is loading is later not.
C27_LoadingEndsWithLoad ==
  /\ [][LoadCompleted => ~loading']_vars
  /\ [](pending = {} => ~loading)
  /\ loading ~> ~loading

\* a search that failed after the listing had loaded: nothing is in
\* flight and loading is false
C27_Witness ==
  /\ last.op = "loadFail"
  /\ nLoads >= 2
  /\ pending = {}
  /\ ~loading

\* stars have been clicked in turn on one item
RatedSoFar == apiCall.fn = "handleRate in turn" /\ apiRet # NoReturn

\* C28: the stars submit integers from 1 to 5 only, and for an item whose
\* total avg * count is at most 5 * count, after the ratings given so far
\* the total is still at most 5 * count, so the mean is at most 5, and
\* ratingsCount has grown by the number of clicks.
C28_MeanStaysInRange ==
  RatedSoFar
    => LET old == apiCall.items[1]
           new == apiRet.value.items[1]
           done == apiRet.value.done
           total == FracTimesInt(new.avgRating, new.ratingsCount)
       IN /\ \A k \in 1..done : apiCall.ratings[k] \in 1..5
          /\ new.ratingsCount = old.ratingsCount + done
          /\ total.num <= 5 * new.ratingsCount * total.den
          /\ new.avgRating.num <= 5 * new.avgRating.den
          /\ new.avgRating.num >= 0

\* an unrated item got three times five stars: its mean is 5
C28_Witness ==
  /\ RatedSoFar
  /\ apiCall.items[1].ratingsCount = 0
  /\ apiRet.value.done = MaxRatings
  /\ apiRet.value.items[1].avgRating = FracOfInt(5)
  /\ apiRet.value.items[1].ratingsCount = MaxRatings

\* a step that writes totalResults, suggestions or appliedFilters
MetaWritten ==
  <<totalResults', suggestions', appliedFilters'>>
    # <<totalResults, suggestions, appliedFilters>>

\* a step in which a reset load ends with a result: its request was
\* answered with a 2xx status, or it needed none
ResetSucceeded ==
  \/ last'.op = "loadOk" /\ last'.reset /\ last'.status = "ok"
  \/ LoadCalled /\ Sent = {} /\ last'.reset

\* C29: only a successful reset load writes totalResults, suggestions and
\* appliedFilters: a load-more, a failed reset, a rating and the dismissal
\* of an error leave the three as they are.
C29_OnlyResetSuccessWritesMeta ==
  [][MetaWritten => ResetSucceeded]_vars

====
